---------------------------- MODULE Spec2Model ----------------------------
(***************************************************************************)
(* read_weights (src/input/weights.c): decoding of the weights of a WFA.   *)
(*                                                                         *)
(* The automaton is the routine's input and is fixed by Init.  One action  *)
(* models each step of the routine: the delta scan, the level/offset       *)
(* computation, the allocation of the context-id array, one iteration of   *)
(* the classification loop body, the alphabet table, the call of the       *)
(* arithmetic decoder, one iteration of the writeback loop body and the    *)
(* final release.                                                          *)
(*                                                                         *)
(* Arrays are functions on 0..n-1, as in C.  A real number r is held as    *)
(* the integer r * RealDen.                                                *)
(***************************************************************************)
EXTENDS Integers, Sequences, FiniteSets, TLC

(***************************************************************************)
(* Bounds of the model.                                                    *)
(***************************************************************************)
MaxNonBasis == 2      \* at most this many non-basis states
MaxExtra    == 1      \* total ranges over 0..N+MaxExtra, N the qualifying edges

(* level_of_state of the non-basis states: two levels with a gap between  *)
Levels  == {1, 3}
(* the payloads of the bit stream, by the first symbol they decode to      *)
Streams == {0, 1}

(***************************************************************************)
(* Program constants.                                                      *)
(***************************************************************************)
MAXLABELS    == 2     \* labels of a state
MAXLEVEL     == 22    \* initial value of min_level and d_min_level
NO_EDGE      == -1    \* terminator of an edge list
RANGE        == -1    \* tree entry of a label that is approximated by a range
BasisStates  == 1     \* wfa->basis_states of the automata of the model
Fixed        == 512   \* scale of the fixed-point weight
RealDen      == 4 * Fixed   \* denominator of the representation of reals

isrange(x) == x = RANGE
isedge(x)  == x # NO_EDGE

Arr(seq) == [i \in 0 .. Len(seq) - 1 |-> seq[i + 1]]

(* min and max over the values a loop folds with min () and max () *)
SetMin(S) == CHOOSE x \in S : \A y \in S : x <= y
SetMax(S) == CHOOSE x \in S : \A y \in S : x >= y

(***************************************************************************)
(* The four quantization models of wfa->wfainfo.  mantissa_bits gives the  *)
(* alphabet 2^(mantissa_bits+1); step is the quantization step, in units   *)
(* of 1/RealDen.  The four differ in both, so that a wrong choice of model *)
(* shows in the alphabet and in the value.                                 *)
(***************************************************************************)
WfaInfo ==
  [ dc_rpf   |-> [id |-> "dc_rpf",   mantissa_bits |-> 1, step |-> 3],
    d_dc_rpf |-> [id |-> "d_dc_rpf", mantissa_bits |-> 2, step |-> 5],
    rpf      |-> [id |-> "rpf",      mantissa_bits |-> 3, step |-> 7],
    d_rpf    |-> [id |-> "d_rpf",    mantissa_bits |-> 4, step |-> 9] ]

(***************************************************************************)
(* btor: symbol -> real.  The low bit of the symbol is the sign, the rest  *)
(* the mantissa; the value is the midpoint of the mantissa's cell.         *)
(***************************************************************************)
btor(binary, rpf) ==
  LET mantissa == binary \div 2
      mag      == (2 * mantissa + 1) * rpf.step
  IN  IF binary % 2 = 1 THEN 0 - mag ELSE mag

(***************************************************************************)
(* The conversion of C from a floating value to int: toward zero.          *)
(***************************************************************************)
TruncDiv(a, b) == IF a >= 0 THEN a \div b ELSE 0 - ((0 - a) \div b)

(* wfa->int_weight = weight_val * 512 + 0.5, weight_val = w / RealDen *)
ToIntWeight(w) == TruncDiv(2 * w * Fixed + RealDen, 2 * RealDen)

(***************************************************************************)
(* The automata of the model.  A non-basis state has a delta flag, a level *)
(* and one of the shapes below: per label a tree entry (RANGE or a child   *)
(* state) and an edge array of MAXEDGES+1 slots closed by NO_EDGE.         *)
(***************************************************************************)
Shapes ==
  { \* DC only; label 1 is no range but its slots hold an edge
    [tree |-> Arr(<<RANGE, 0>>),
     into |-> Arr(<<Arr(<<0, NO_EDGE, NO_EDGE>>), Arr(<<1, NO_EDGE, NO_EDGE>>)>>)],
    \* DC then AC; label 1 has one AC edge and a stale slot after the terminator
    [tree |-> Arr(<<RANGE, RANGE>>),
     into |-> Arr(<<Arr(<<0, 1, NO_EDGE>>), Arr(<<1, NO_EDGE, 0>>)>>)],
    \* AC then DC; label 1 is a range with no edge
    [tree |-> Arr(<<RANGE, RANGE>>),
     into |-> Arr(<<Arr(<<1, 0, NO_EDGE>>), Arr(<<NO_EDGE, NO_EDGE, NO_EDGE>>)>>)],
    \* AC only, under label 1
    [tree |-> Arr(<<0, RANGE>>),
     into |-> Arr(<<Arr(<<NO_EDGE, NO_EDGE, NO_EDGE>>), Arr(<<1, NO_EDGE, NO_EDGE>>)>>)],
    \* no range at all
    [tree |-> Arr(<<0, 0>>),
     into |-> Arr(<<Arr(<<0, NO_EDGE, NO_EDGE>>), Arr(<<NO_EDGE, NO_EDGE, NO_EDGE>>)>>)] }

StateConfigs ==
  [delta : BOOLEAN, level : Levels, shape : Shapes]

(* The basis state: it has a range, an edge and a set delta flag, none of  *)
(* which read_weights may look at.                                         *)
BasisConfig ==
  [delta |-> TRUE, level |-> 1,
   shape |-> [tree |-> Arr(<<RANGE, RANGE>>),
              into |-> Arr(<<Arr(<<0, NO_EDGE, NO_EDGE>>),
                             Arr(<<0, NO_EDGE, NO_EDGE>>)>>)]]

MakeWfa(n, cfg) ==
  LET c(s) == IF s < BasisStates THEN BasisConfig ELSE cfg[s - BasisStates + 1]
  IN  [ basis_states   |-> BasisStates,
        states         |-> BasisStates + n,
        tree           |-> [s \in 0 .. BasisStates + n - 1 |-> c(s).shape.tree],
        into           |-> [s \in 0 .. BasisStates + n - 1 |-> c(s).shape.into],
        level_of_state |-> [s \in 0 .. BasisStates + n - 1 |-> c(s).level],
        delta_state    |-> [s \in 0 .. BasisStates + n - 1 |-> c(s).delta] ]

Wfas ==
  UNION { { MakeWfa(k, cfg) : cfg \in [1 .. k -> StateConfigs] } : k \in 0 .. MaxNonBasis }

NonBasis(w) == w.basis_states .. w.states - 1
Labels      == 0 .. MAXLABELS - 1
Slots(w)    ==
  { <<s, l, e>> : s \in 0 .. w.states - 1, l \in Labels, e \in DOMAIN BasisConfig.shape.into[0] }

(***************************************************************************)
(* The state of one call read_weights (total, wfa, input).                 *)
(***************************************************************************)
VARIABLES
  wfa,            \* the automaton: topology, levels, delta flags
  weight,         \* wfa->weight, per slot: <<>> while absent, <<w>> once stored
  int_weight,     \* wfa->int_weight, per slot, likewise
  total,          \* the parameter total
  pc,             \* the position in the routine
  delta_approx,
  min_level, max_level, d_min_level, d_max_level, dc, d_dc,
  offset1, offset2, offset3, offset4,
  cur,            \* state, label, edge of the running traversal
  lptr,           \* lptr - level_array
  wptr,           \* wptr - weights_array
  level_array, c_symbols, weights_array,
  heap,           \* per transient array: "none", "live", "freed" or "invalid"
  oob,            \* an array was accessed outside its allocated length
  decoded,        \* number of calls of decode_array
  classified,     \* history: the edge of each entry of level_array
  written,        \* history: edge, symbol index and model of each writeback
  dec,            \* a FiascoDecoder object of the Python binding (pyfiasco.cpp)
  wfa0            \* history: the automaton as it was when the call began

(* what read_weights gets from its caller and never assigns *)
topo   == <<wfa, total, dec, wfa0>>
levels == <<delta_approx, min_level, max_level, d_min_level, d_max_level, dc, d_dc>>
offs   == <<offset1, offset2, offset3, offset4>>
wts    == <<weight, int_weight, written>>
arrays == <<level_array, c_symbols, weights_array>>
vars   == <<wfa, weight, int_weight, total, pc, delta_approx, min_level, max_level,
            d_min_level, d_max_level, dc, d_dc, offset1, offset2, offset3, offset4,
            cur, lptr, wptr, level_array, c_symbols, weights_array, heap, oob,
            decoded, classified, written, dec, wfa0>>

(* the variables of the call of read_weights *)
rwvars == <<wfa, weight, int_weight, total, pc, delta_approx, min_level, max_level,
            d_min_level, d_max_level, dc, d_dc, offset1, offset2, offset3, offset4,
            cur, lptr, wptr, level_array, c_symbols, weights_array, heap, oob,
            decoded, classified, written, wfa0>>

(***************************************************************************)
(* The weight-bearing edges of an automaton: the slots before the          *)
(* terminator, under a label with a range, in a non-basis state.           *)
(***************************************************************************)
Qualifying(w) ==
  { p \in Slots(w) :
      /\ p[1] \in NonBasis(w)
      /\ w.tree[p[1]][p[2]] = RANGE
      /\ \A e \in 0 .. p[3] : w.into[p[1]][p[2]][e] # NO_EDGE }

fiasco_calloc(n) == [i \in 0 .. n - 1 |-> 0]

(* as fiasco_free, the array left as it is *)
fiasco_free_nothing(h, a) == h

(* lines 169, 171, 212: the release of a live array; any other release is  *)
(* invalid                                                                 *)
fiasco_free(h, a) ==
  [h EXCEPT ![a] = IF h[a] = "live" THEN "freed" ELSE "invalid"]

Start == [state |-> BasisStates, label |-> 0, edge |-> 0]
End   == [state |-> 0 - 1, label |-> 0, edge |-> 0]

(***************************************************************************)
(* FiascoDecoder (src/msvc/pyfiasco.cpp).  decoder_ is 0 for nullptr or    *)
(* the number of a native handle; handles are numbered as                  *)
(* fiasco_decoder_new creates them, and deletes counts the calls of        *)
(* fiasco_decoder_delete on each.  op, held, native and res record the     *)
(* last member call: its name, decoder_ when it was entered, the handle    *)
(* it passed to the native decoder (0: none) and its outcome.              *)
(***************************************************************************)
MaxOpens == 3      \* fiasco_decoder_new creates at most this many handles
MaxCalls == 2      \* at most this many calls reach the native decoder

(* the constructor, lines 234-239 *)
DecNew ==
  [ alive    |-> TRUE,
    decoder_ |-> 0,
    options_ |-> "live",
    created  |-> 0,
    deletes  |-> [h \in 1 .. MaxOpens |-> 0],
    calls    |-> 0,
    dead     |-> FALSE,
    op       |-> "new",
    held     |-> 0,
    native   |-> 0,
    res      |-> "none" ]

IsLive(d, h) == h \in 1 .. d.created /\ d.deletes[h] = 0

(* fiasco_decoder_delete (h) *)
DecoderDelete(d, h) == [d EXCEPT !.deletes[h] = @ + 1]

(* as DecClose, decoder_ left as it is *)
DecCloseKeepsPointer(d) ==
  IF d.decoder_ # 0 THEN DecoderDelete(d, d.decoder_) ELSE d

(* close (), lines 263-268 *)
DecClose(d) ==
  IF d.decoder_ # 0
  THEN [DecoderDelete(d, d.decoder_) EXCEPT !.decoder_ = 0]
  ELSE d

(* as DecOpen, without the close () of the handle held *)
DecOpenNoClose(d, ok) ==
  IF ok THEN [d EXCEPT !.decoder_ = d.created + 1, !.created = d.created + 1]
        ELSE [d EXCEPT !.decoder_ = 0]

(* open (), lines 256-261: fiasco_decoder_new yields a new handle (ok) or  *)
(* nullptr                                                                 *)
DecOpen(d, ok) ==
  LET c == DecClose(d)
  IN  IF ok THEN [c EXCEPT !.decoder_ = c.created + 1, !.created = c.created + 1]
            ELSE [c EXCEPT !.decoder_ = 0]

(* a call of the native decoder on handle h *)
NativeCall(d, h) ==
  [d EXCEPT !.native = h, !.calls = @ + 1, !.dead = (@ \/ ~ IsLive(d, h))]

(* as DecGetFrame, without the test of decoder_ *)
DecGetFrameNoTest(d, out) ==
  [NativeCall(d, d.decoder_) EXCEPT !.res = out]

(* get_frame (), lines 307-328: out is what the native decoder and the     *)
(* cast of its image come to                                               *)
DecGetFrame(d, out) ==
  IF d.decoder_ = 0
  THEN [d EXCEPT !.native = 0, !.res = "No file opened"]
  ELSE [NativeCall(d, d.decoder_) EXCEPT !.res = out]

FrameOutcomes == {"frame", "Failed to decode frame", "Failed to cast image"}

(* the getters, lines 270-305 *)
DecGetter(d) ==
  IF d.decoder_ = 0
  THEN [d EXCEPT !.native = 0, !.res = "default"]
  ELSE [NativeCall(d, d.decoder_) EXCEPT !.res = "value"]

(* the destructor, lines 241-246 *)
DecDestroy(d) ==
  [DecClose(d) EXCEPT !.alive = FALSE, !.options_ = "deleted"]

(* the record of a member call: its name and decoder_ on entry *)
Called(d, name, after) == [after EXCEPT !.op = name, !.held = d.decoder_]

Init ==
  /\ dec = DecNew
  /\ wfa \in Wfas
  /\ wfa0 = wfa
  /\ total \in 0 .. Cardinality(Qualifying(wfa)) + MaxExtra
  /\ weight = [p \in Slots(wfa) |-> <<>>]
  /\ int_weight = [p \in Slots(wfa) |-> <<>>]
  /\ pc = "scan"
  /\ delta_approx = FALSE
  /\ min_level = 0 /\ max_level = 0 /\ d_min_level = 0 /\ d_max_level = 0
  /\ dc = FALSE /\ d_dc = FALSE
  /\ offset1 = 0 /\ offset2 = 0 /\ offset3 = 0 /\ offset4 = 0
  /\ cur = Start
  /\ lptr = 0 /\ wptr = 0
  /\ level_array = <<>> /\ c_symbols = <<>> /\ weights_array = <<>>
  /\ heap = [a \in {"level_array", "c_symbols", "weights_array"} |-> "none"]
  /\ oob = FALSE
  /\ decoded = 0
  /\ classified = <<>>
  /\ written = <<>>

(***************************************************************************)
(* Lines 71-76: has the delta approximation been used?                     *)
(***************************************************************************)
DeltaUsed(w) == \E state \in NonBasis(w) : w.delta_state[state]

ScanDelta ==
  /\ pc = "scan"
  /\ delta_approx' = DeltaUsed(wfa)
  /\ pc' = "levels"
  /\ UNCHANGED <<topo, wts, min_level, max_level, d_min_level, d_max_level, dc, d_dc,
                 offs, cur, lptr, wptr, arrays, heap, oob, decoded, classified>>

(***************************************************************************)
(* Lines 91-124: level ranges, DC flags and the four offsets.              *)
(***************************************************************************)
IsDelta(w, da, state) == da /\ w.delta_state[state]

(* the (state, label) pairs the loop of lines 95-97 enters, per class *)
RangeLabels(w, da, delta) ==
  { sl \in NonBasis(w) \X Labels :
      /\ isrange(w.tree[sl[1]][sl[2]])
      /\ IsDelta(w, da, sl[1]) = delta }

MinLevelOf(w, da, delta) ==
  SetMin({MAXLEVEL} \cup { w.level_of_state[sl[1]] - 1 : sl \in RangeLabels(w, da, delta) })

MaxLevelOf(w, da, delta) ==
  SetMax({0} \cup { w.level_of_state[sl[1]] - 1 : sl \in RangeLabels(w, da, delta) })

DcOf(w, da, delta) ==
  \E sl \in RangeLabels(w, da, delta) : w.into[sl[1]][sl[2]][0] = 0

(* as FixMax, without the adjustment of an empty range *)
FixMaxNone(lo, hi) == hi

(* lines 116-119 *)
FixMax(lo, hi) == IF lo > hi THEN lo - 1 ELSE hi

ComputeLevels ==
  /\ pc = "levels"
  /\ LET lo   == MinLevelOf(wfa, delta_approx, FALSE)
         hi   == FixMax(lo, MaxLevelOf(wfa, delta_approx, FALSE))
         d_lo == MinLevelOf(wfa, delta_approx, TRUE)
         d_hi == FixMax(d_lo, MaxLevelOf(wfa, delta_approx, TRUE))
         f    == DcOf(wfa, delta_approx, FALSE)
         d_f  == DcOf(wfa, delta_approx, TRUE)
         o1   == IF f THEN 1 ELSE 0
         o2   == o1 + (IF d_f THEN 1 ELSE 0)
         o3   == o2 + (hi - lo + 1)
         o4   == o3 + (d_hi - d_lo + 1)
     IN  /\ min_level' = lo /\ max_level' = hi
         /\ d_min_level' = d_lo /\ d_max_level' = d_hi
         /\ dc' = f /\ d_dc' = d_f
         /\ offset1' = o1 /\ offset2' = o2 /\ offset3' = o3 /\ offset4' = o4
  /\ pc' = "alloc"
  /\ UNCHANGED <<topo, wts, delta_approx, cur, lptr, wptr, arrays, heap, oob,
                 decoded, classified>>

(***************************************************************************)
(* Line 126: the context-id array.                                         *)
(***************************************************************************)
AllocLevelArray ==
  /\ pc = "alloc"
  /\ level_array' = fiasco_calloc(total)
  /\ heap' = [heap EXCEPT !["level_array"] = "live"]
  /\ lptr' = 0
  /\ cur' = Start
  /\ pc' = "classify"
  /\ UNCHANGED <<topo, wts, levels, offs, wptr, c_symbols, weights_array, oob,
                 decoded, classified>>

(***************************************************************************)
(* Lines 127-131: the loop header of the classification pass.  From the    *)
(* position (state, label, edge) it yields the position of the next        *)
(* execution of the loop body, or End.                                     *)
(***************************************************************************)
RECURSIVE ClassifySeek(_, _)
ClassifySeek(w, c) ==
  IF c.state >= w.states THEN End
  ELSE IF c.label >= MAXLABELS
    THEN ClassifySeek(w, [state |-> c.state + 1, label |-> 0, edge |-> 0])
  ELSE IF ~ isrange(w.tree[c.state][c.label])
    THEN ClassifySeek(w, [state |-> c.state, label |-> c.label + 1, edge |-> 0])
  ELSE IF isedge(w.into[c.state][c.label][c.edge])
    THEN c
  ELSE ClassifySeek(w, [state |-> c.state, label |-> c.label + 1, edge |-> 0])

(* as ContextId, the delta AC id taken relative to min_level *)
ContextIdOneBase(w, da, c, o1, o2, o3, lo, d_lo) ==
  LET domain == w.into[c.state][c.label][c.edge]
  IN  IF domain # 0
      THEN IF IsDelta(w, da, c.state)
           THEN o3 + w.level_of_state[c.state] - 1 - lo
           ELSE o2 + w.level_of_state[c.state] - 1 - lo
      ELSE IF IsDelta(w, da, c.state) THEN o1 ELSE 0

(* lines 135-146: the context id of the edge at position c *)
ContextId(w, da, c, o1, o2, o3, lo, d_lo) ==
  LET domain == w.into[c.state][c.label][c.edge]
  IN  IF domain # 0
      THEN IF IsDelta(w, da, c.state)
           THEN o3 + w.level_of_state[c.state] - 1 - d_lo
           ELSE o2 + w.level_of_state[c.state] - 1 - lo
      ELSE IF IsDelta(w, da, c.state) THEN o1 ELSE 0

Pos(c) == <<c.state, c.label, c.edge>>

(* as Overflow, one entry late *)
OverflowLate(lp, tot) == lp > tot

(* line 133: the budget is used up *)
Overflow(lp, tot) == lp >= tot

ClassifyEdge ==
  /\ pc = "classify"
  /\ LET c == ClassifySeek(wfa, cur)
     IN  /\ c # End
         /\ ~ Overflow(lptr, total)
         /\ level_array' =
              [level_array EXCEPT ![lptr] =
                 ContextId(wfa, delta_approx, c, offset1, offset2, offset3,
                           min_level, d_min_level)]
         /\ lptr' = lptr + 1
         /\ classified' = Append(classified, Pos(c))
         /\ cur' = [c EXCEPT !.edge = c.edge + 1]
  /\ UNCHANGED <<topo, wts, pc, levels, offs, wptr, c_symbols, weights_array, heap,
                 oob, decoded>>

(* lines 133-134: error () does not return *)
ClassifyOverflow ==
  /\ pc = "classify"
  /\ LET c == ClassifySeek(wfa, cur)
     IN  /\ c # End
         /\ Overflow(lptr, total)
         /\ cur' = c
  /\ pc' = "error"
  /\ UNCHANGED <<topo, wts, levels, offs, lptr, wptr, arrays, heap, oob, decoded,
                 classified>>

ClassifyDone ==
  /\ pc = "classify"
  /\ ClassifySeek(wfa, cur) = End
  /\ cur' = End
  /\ pc' = "alphabet"
  /\ UNCHANGED <<topo, wts, levels, offs, lptr, wptr, arrays, heap, oob, decoded,
                 classified>>


(***************************************************************************)
(* Lines 155-165: the alphabet size of every context.  A store outside the *)
(* allocated length leaves the array as it is.                             *)
(***************************************************************************)
Pow2(n) == 2 ^ n

Symbols(rpf) == Pow2(rpf.mantissa_bits + 1)

Store(a, i, v) == IF i \in DOMAIN a THEN [a EXCEPT ![i] = v] ELSE a

(* as AlphabetTable, the two DC stores in the other order *)
AlphabetTableDcLast(o1, o2, o3, o4, info) ==
  LET t0 == fiasco_calloc(o4)
      t1 == IF o1 # o2 THEN Store(t0, o1, Symbols(info.d_dc_rpf)) ELSE t0
      t2 == Store(t1, 0, Symbols(info.dc_rpf))
      t3 == [i \in DOMAIN t2 |->
               IF o2 <= i /\ i < o3 THEN Symbols(info.rpf) ELSE t2[i]]
  IN  [i \in DOMAIN t3 |->
         IF o3 <= i /\ i < o4 THEN Symbols(info.d_rpf) ELSE t3[i]]

AlphabetTable(o1, o2, o3, o4, info) ==
  LET t0 == fiasco_calloc(o4)
      t1 == Store(t0, 0, Symbols(info.dc_rpf))
      t2 == IF o1 # o2 THEN Store(t1, o1, Symbols(info.d_dc_rpf)) ELSE t1
      t3 == [i \in DOMAIN t2 |->
               IF o2 <= i /\ i < o3 THEN Symbols(info.rpf) ELSE t2[i]]
  IN  [i \in DOMAIN t3 |->
         IF o3 <= i /\ i < o4 THEN Symbols(info.d_rpf) ELSE t3[i]]

(* the indices lines 158-165 store to *)
AlphabetStores(o1, o2, o3, o4) ==
  {0} \cup (IF o1 # o2 THEN {o1} ELSE {}) \cup (o2 .. o4 - 1)

(* Line 158 stores to c_symbols [0] whatever offset4 is.  With offset4 = 0 *)
(* the store is outside the array: the call goes on, or it faults.         *)
BuildAlphabet ==
  /\ pc = "alphabet"
  /\ c_symbols' = AlphabetTable(offset1, offset2, offset3, offset4, WfaInfo)
  /\ heap' = [heap EXCEPT !["c_symbols"] = "live"]
  /\ IF AlphabetStores(offset1, offset2, offset3, offset4) \subseteq 0 .. offset4 - 1
     THEN /\ pc' = "decode"
          /\ oob' = oob
     ELSE /\ pc' \in {"decode", "crashed"}
          /\ oob' = TRUE
  /\ UNCHANGED <<topo, wts, levels, offs, cur, lptr, wptr, level_array,
                 weights_array, decoded, classified>>

(***************************************************************************)
(* Lines 167-171: decode_array, then the release of c_symbols and of       *)
(* level_array.  decode_array yields total symbols, the k-th from the      *)
(* alphabet of context level_array [k]; which ones is up to the stream.    *)
(***************************************************************************)
InBounds(a, i) == i \in DOMAIN a

AlphabetOf(la, cs, k) ==
  IF InBounds(cs, la[k]) /\ cs[la[k]] > 0 THEN cs[la[k]] ELSE 1

decode_array(seed, la, cs, n) ==
  [k \in 0 .. n - 1 |-> (seed + k) % AlphabetOf(la, cs, k)]

Decode ==
  /\ pc = "decode"
  /\ \E seed \in Streams :
       weights_array' = decode_array(seed, level_array, c_symbols, total)
  /\ decoded' = decoded + 1
  /\ heap' = fiasco_free(fiasco_free([heap EXCEPT !["weights_array"] = "live"],
                                     "c_symbols"), "level_array")
  /\ IF \A k \in DOMAIN level_array : InBounds(c_symbols, level_array[k])
     THEN /\ pc' = "writeback"
          /\ oob' = oob
     ELSE /\ pc' \in {"writeback", "crashed"}
          /\ oob' = TRUE
  /\ cur' = Start
  /\ wptr' = 0
  /\ UNCHANGED <<topo, wts, levels, offs, lptr, level_array, c_symbols, classified>>

(***************************************************************************)
(* Lines 180-184: the loop header of the writeback pass.                   *)
(***************************************************************************)
(* as WritebackSeek, without the test of the label's range *)
RECURSIVE WritebackSeekAnyLabel(_, _)
WritebackSeekAnyLabel(w, c) ==
  IF c.state >= w.states THEN End
  ELSE IF c.label >= MAXLABELS
    THEN WritebackSeekAnyLabel(w, [state |-> c.state + 1, label |-> 0, edge |-> 0])
  ELSE IF isedge(w.into[c.state][c.label][c.edge])
    THEN c
  ELSE WritebackSeekAnyLabel(w, [state |-> c.state, label |-> c.label + 1, edge |-> 0])

(* as WritebackSeek, the label loop outside the state loop *)
RECURSIVE WritebackSeekLabelMajor(_, _)
WritebackSeekLabelMajor(w, c) ==
  IF c.label >= MAXLABELS THEN End
  ELSE IF c.state >= w.states
    THEN WritebackSeekLabelMajor(w, [state |-> w.basis_states, label |-> c.label + 1, edge |-> 0])
  ELSE IF ~ isrange(w.tree[c.state][c.label])
    THEN WritebackSeekLabelMajor(w, [state |-> c.state + 1, label |-> c.label, edge |-> 0])
  ELSE IF isedge(w.into[c.state][c.label][c.edge])
    THEN c
  ELSE WritebackSeekLabelMajor(w, [state |-> c.state + 1, label |-> c.label, edge |-> 0])

RECURSIVE WritebackSeek(_, _)
WritebackSeek(w, c) ==
  IF c.state >= w.states THEN End
  ELSE IF c.label >= MAXLABELS
    THEN WritebackSeek(w, [state |-> c.state + 1, label |-> 0, edge |-> 0])
  ELSE IF ~ isrange(w.tree[c.state][c.label])
    THEN WritebackSeek(w, [state |-> c.state, label |-> c.label + 1, edge |-> 0])
  ELSE IF isedge(w.into[c.state][c.label][c.edge])
    THEN c
  ELSE WritebackSeek(w, [state |-> c.state, label |-> c.label + 1, edge |-> 0])

(* lines 188-201: the model the symbol of the edge at c is inverted with *)
WritebackModel(w, da, c, info) ==
  LET domain == w.into[c.state][c.label][c.edge]
  IN  IF domain # 0
      THEN IF IsDelta(w, da, c.state) THEN info.d_rpf ELSE info.rpf
      ELSE IF IsDelta(w, da, c.state) THEN info.d_dc_rpf ELSE info.dc_rpf

(* lines 186-205: one execution of the loop body *)
WritebackEdge ==
  /\ pc = "writeback"
  /\ LET c == WritebackSeek(wfa, cur)
     IN  /\ c # End
         /\ LET rpf        == WritebackModel(wfa, delta_approx, c, WfaInfo)
                sym        == IF InBounds(weights_array, wptr)
                              THEN weights_array[wptr] ELSE 0
                weight_val == btor(sym, rpf)
            IN  /\ weight' = [weight EXCEPT ![Pos(c)] = <<weight_val>>]
                /\ int_weight' = [int_weight EXCEPT ![Pos(c)] = <<ToIntWeight(weight_val)>>]
                /\ written' = Append(written, [pos |-> Pos(c), k |-> wptr, rpf |-> rpf.id])
                /\ oob' = (oob \/ ~ InBounds(weights_array, wptr))
         /\ wptr' = wptr + 1
         /\ cur' = [c EXCEPT !.edge = c.edge + 1]
  /\ UNCHANGED <<topo, pc, levels, offs, lptr, arrays, heap, decoded, classified>>

(* line 212 *)
Finish ==
  /\ pc = "writeback"
  /\ WritebackSeek(wfa, cur) = End
  /\ cur' = End
  /\ heap' = fiasco_free(heap, "weights_array")
  /\ pc' = "done"
  /\ UNCHANGED <<topo, wts, levels, offs, lptr, wptr, arrays, oob, decoded, classified>>

Next ==
  \/ ScanDelta
  \/ ComputeLevels
  \/ AllocLevelArray
  \/ ClassifyEdge
  \/ ClassifyOverflow
  \/ ClassifyDone
  \/ BuildAlphabet
  \/ Decode
  \/ WritebackEdge
  \/ Finish

Spec == Init /\ [][Next]_vars

(***************************************************************************)
(* The life of one FiascoDecoder: any sequence of open, close, get_frame   *)
(* and getter calls, then its destruction.  No call of read_weights is     *)
(* under way.                                                              *)
(***************************************************************************)
DecInit ==
  /\ Init
  /\ wfa = MakeWfa(0, <<>>)
  /\ total = 0

Open ==
  /\ dec.alive
  /\ \E ok \in BOOLEAN :
       /\ ok => dec.created < MaxOpens
       /\ dec' = Called(dec, "open", DecOpen(dec, ok))
  /\ UNCHANGED rwvars

Close ==
  /\ dec.alive
  /\ dec' = Called(dec, "close", DecClose(dec))
  /\ UNCHANGED rwvars

GetFrame ==
  /\ dec.alive
  /\ dec.calls < MaxCalls
  /\ \E out \in FrameOutcomes : dec' = Called(dec, "get_frame", DecGetFrame(dec, out))
  /\ UNCHANGED rwvars

Getter ==
  /\ dec.alive
  /\ dec.calls < MaxCalls
  /\ dec' = Called(dec, "getter", DecGetter(dec))
  /\ UNCHANGED rwvars

Destroy ==
  /\ dec.alive
  /\ dec' = Called(dec, "destroy", DecDestroy(dec))
  /\ UNCHANGED rwvars

DecNext ==
  \/ Open
  \/ Close
  \/ GetFrame
  \/ Getter
  \/ Destroy

DecSpec == DecInit /\ [][DecNext]_vars

TypeOK ==
  /\ pc \in {"scan", "levels", "alloc", "classify", "error", "alphabet", "decode",
             "crashed", "writeback", "done"}
  /\ lptr \in 0 .. total
  /\ offset1 <= offset2 /\ offset2 <= offset3 /\ offset3 <= offset4


(***************************************************************************)
(*                              Properties                                 *)
(***************************************************************************)
N == Cardinality(Qualifying(wfa))

(* traversal order: state ascending, then label, then edge *)
Before(p, q) ==
  \/ p[1] < q[1]
  \/ p[1] = q[1] /\ p[2] < q[2]
  \/ p[1] = q[1] /\ p[2] = q[2] /\ p[3] < q[3]

(* the number of qualifying edges that precede p in traversal order *)
Rank(p) == Cardinality({ q \in Qualifying(wfa) : Before(q, p) })

Domain(p) == wfa.into[p[1]][p[2]][p[3]]

HasWeight(p)    == weight[p] # <<>>
HasIntWeight(p) == int_weight[p] # <<>>

AfterLevels    == pc \notin {"scan", "levels"}
AfterAlphabet  == pc \in {"decode", "crashed", "writeback", "done"}

(***************************************************************************)
(* C1: with total = N, N the number of weight-bearing edges, the overflow  *)
(* error is never raised and, when the routine returns, weight and         *)
(* int_weight are stored on exactly the N weight-bearing edges, each edge  *)
(* written exactly once.                                                   *)
(***************************************************************************)
C1_ExactlyNWritten ==
  total = N =>
    /\ pc # "error"
    /\ pc = "done" =>
         /\ { p \in Slots(wfa) : HasWeight(p) } = Qualifying(wfa)
         /\ { p \in Slots(wfa) : HasIntWeight(p) } = Qualifying(wfa)
         /\ Len(written) = N
         /\ \A i, j \in 1 .. Len(written) : i # j => written[i].pos # written[j].pos

C1_Witness ==
  /\ pc = "done" /\ total = N /\ N >= 4
  /\ \E p \in Slots(wfa) : p \notin Qualifying(wfa) /\ p[1] \in NonBasis(wfa)
                           /\ Domain(p) # NO_EDGE

(***************************************************************************)
(* C2: the overflow error is raised exactly when total < N, and then at    *)
(* the moment the classification pass stands at the (total+1)-th           *)
(* weight-bearing edge in traversal order; at that moment no weight or     *)
(* int_weight has been stored and the decoder has not been called.         *)
(***************************************************************************)
C2_OverflowAtFirstExcessEdge ==
  /\ pc = "error" =>
       /\ total < N
       /\ Pos(cur) \in Qualifying(wfa)
       /\ Rank(Pos(cur)) = total
       /\ lptr = total
       /\ \A p \in Slots(wfa) : ~ HasWeight(p) /\ ~ HasIntWeight(p)
       /\ decoded = 0
  /\ total < N => pc \in {"scan", "levels", "alloc", "classify", "error"}

C2_Witness ==
  pc = "error" /\ total >= 2 /\ N >= total + 2

(***************************************************************************)
(* C3: both passes visit the weight-bearing edges in the same order,       *)
(* state, label and edge ascending: the k-th edge written is the edge the  *)
(* k-th entry of level_array was computed for, and its weight is the       *)
(* inversion of the k-th decoded symbol.                                   *)
(***************************************************************************)
C3_SameOrder ==
  /\ \A i, j \in 1 .. Len(classified) : i < j => Before(classified[i], classified[j])
  /\ \A i \in 1 .. Len(written) :
       /\ i <= Len(classified)
       /\ written[i].k = i - 1
       /\ written[i].pos = classified[i]
       /\ i - 1 \in DOMAIN weights_array
       /\ weight[written[i].pos] =
            << btor(weights_array[i - 1], WfaInfo[written[i].rpf]) >>

C3_Witness ==
  /\ pc = "done" /\ Len(written) >= 4
  /\ written[1].pos[1] # written[Len(written)].pos[1]
  /\ \E i \in 1 .. Len(written) : written[i].pos[2] = 1

(***************************************************************************)
(* C4: for every weight-bearing edge, the model its symbol is inverted     *)
(* with is the model whose mantissa bits gave the alphabet size            *)
(* c_symbols [id] of the context id the edge was classified with.          *)
(***************************************************************************)
C4_SameModel ==
  \A i \in 1 .. Len(written) :
    /\ level_array[i - 1] \in DOMAIN c_symbols
    /\ c_symbols[level_array[i - 1]] = Symbols(WfaInfo[written[i].rpf])

(***************************************************************************)
(* C5: on every edge written, int_weight is weight * 512 rounded to the    *)
(* nearest integer, for negative weights too.                              *)
(***************************************************************************)
RoundNearest(num, den) ==
  IF num >= 0 THEN (2 * num + den) \div (2 * den)
              ELSE 0 - ((2 * (0 - num) + den) \div (2 * den))

C5_IntWeightIsRounded ==
  \A p \in Slots(wfa) :
    HasWeight(p) =>
      int_weight[p] = << RoundNearest(weight[p][1] * Fixed, RealDen) >>

(***************************************************************************)
(* C6: offset1 is 1 if some weight-bearing edge with domain 0, at any      *)
(* position of its list, lies in a non-delta state, and 0 otherwise;       *)
(* offset2 - offset1 is the same for delta states; offset3 - offset2 and   *)
(* offset4 - offset3 are the widths of the two level ranges.               *)
(***************************************************************************)
DcEdgeIn(delta) ==
  \E p \in Qualifying(wfa) : Domain(p) = 0 /\ wfa.delta_state[p[1]] = delta

C6_Offsets ==
  AfterLevels =>
    /\ offset1 = (IF DcEdgeIn(FALSE) THEN 1 ELSE 0)
    /\ offset2 - offset1 = (IF DcEdgeIn(TRUE) THEN 1 ELSE 0)
    /\ offset3 - offset2 = max_level - min_level + 1
    /\ offset4 - offset3 = d_max_level - d_min_level + 1

(***************************************************************************)
(* C7: every weight-bearing edge gets the context id of its class:         *)
(* domain 0, non-delta: 0; domain 0, delta: offset1; domain not 0,         *)
(* non-delta: offset2 + (level - 1 - min_level); domain not 0, delta:      *)
(* offset3 + (level - 1 - d_min_level).                                    *)
(***************************************************************************)
C7_ContextIds ==
  \A i \in 1 .. Len(classified) :
    LET p     == classified[i]
        delta == wfa.delta_state[p[1]]
        lev   == wfa.level_of_state[p[1]]
    IN  /\ i - 1 \in DOMAIN level_array
        /\ Domain(p) = 0 /\ ~ delta => level_array[i - 1] = 0
        /\ Domain(p) = 0 /\ delta   => level_array[i - 1] = offset1
        /\ Domain(p) # 0 /\ ~ delta => level_array[i - 1] = offset2 + (lev - 1 - min_level)
        /\ Domain(p) # 0 /\ delta   => level_array[i - 1] = offset3 + (lev - 1 - d_min_level)

C7_Witness ==
  /\ pc = "alphabet"
  /\ \A delta \in BOOLEAN : \A ac \in BOOLEAN :
       \E i \in 1 .. Len(classified) :
         /\ wfa.delta_state[classified[i][1]] = delta
         /\ (Domain(classified[i]) # 0) = ac
  /\ min_level # d_min_level

(***************************************************************************)
(* C8, as stated: the level range of a class is the minimum and maximum of *)
(* level - 1 over the AC edges of the class; a class without AC edge, also *)
(* one whose states carry DC edges only, has the empty range max = min - 1 *)
(* and width 0.                                                            *)
(***************************************************************************)
AcLevels(delta) ==
  { wfa.level_of_state[p[1]] - 1 :
      p \in { q \in Qualifying(wfa) : Domain(q) # 0 /\ wfa.delta_state[q[1]] = delta } }

RangeIs(S, lo, hi, width) ==
  IF S = {} THEN hi = lo - 1 /\ width = 0
            ELSE lo = SetMin(S) /\ hi = SetMax(S) /\ width = hi - lo + 1

C8_RangeOverAcEdges ==
  AfterLevels =>
    /\ RangeIs(AcLevels(FALSE), min_level, max_level, offset3 - offset2)
    /\ RangeIs(AcLevels(TRUE), d_min_level, d_max_level, offset4 - offset3)

(***************************************************************************)
(* C8, amended: the level range of a class is the minimum and maximum of   *)
(* level - 1 over the non-basis states of the class that have a label with *)
(* a range, whatever edges the label has; a class without such a label has *)
(* the empty range max = min - 1 and width 0.                              *)
(***************************************************************************)
RangeStateLevels(delta) ==
  { wfa.level_of_state[s] - 1 :
      s \in { t \in NonBasis(wfa) :
                /\ wfa.delta_state[t] = delta
                /\ \E l \in Labels : wfa.tree[t][l] = RANGE } }

C8_RangeOverRangeLabels ==
  AfterLevels =>
    /\ RangeIs(RangeStateLevels(FALSE), min_level, max_level, offset3 - offset2)
    /\ RangeIs(RangeStateLevels(TRUE), d_min_level, d_max_level, offset4 - offset3)

C8_Witness ==
  /\ pc = "alloc"
  /\ AcLevels(FALSE) = {} /\ RangeStateLevels(FALSE) # {}
  /\ RangeStateLevels(TRUE) = {}
  /\ offset3 - offset2 = 1 /\ offset4 = offset3

(***************************************************************************)
(* C9: after the alphabet table is built, every entry i in [0, offset4)    *)
(* holds 2^(mantissa_bits+1) of the model that owns i: dc_rpf below        *)
(* offset1, d_dc_rpf below offset2, rpf below offset3, d_rpf below         *)
(* offset4; no entry is left at 0.                                         *)
(***************************************************************************)
OwnerOf(i) ==
  IF i < offset1 THEN "dc_rpf"
  ELSE IF i < offset2 THEN "d_dc_rpf"
  ELSE IF i < offset3 THEN "rpf"
  ELSE "d_rpf"

C9_AlphabetTable ==
  AfterAlphabet =>
    /\ DOMAIN c_symbols = 0 .. offset4 - 1
    /\ \A i \in 0 .. offset4 - 1 :
         /\ c_symbols[i] = 2 ^ (WfaInfo[OwnerOf(i)].mantissa_bits + 1)
         /\ c_symbols[i] # 0

C9_Witness ==
  /\ pc = "decode"
  /\ offset1 = 0 /\ offset2 = 1 /\ offset3 > offset2 /\ offset4 > offset3

(***************************************************************************)
(* C10: on an automaton without non-basis states, read_weights with        *)
(* total = 0 completes: the four offsets are 0, no transient array is      *)
(* accessed outside its allocated length, no weight is stored.             *)
(***************************************************************************)
C10_NoNonBasisStates ==
  wfa.states = wfa.basis_states /\ total = 0 =>
    /\ ~ oob
    /\ pc # "crashed"
    /\ AfterLevels => offset1 = 0 /\ offset2 = 0 /\ offset3 = 0 /\ offset4 = 0
    /\ \A p \in Slots(wfa) : ~ HasWeight(p) /\ ~ HasIntWeight(p)


(***************************************************************************)
(* C11: read_weights changes nothing of the automaton but weight and       *)
(* int_weight of the weight-bearing edges: at every point of the call      *)
(* tree, into, level_of_state, delta_state and the state counts are what   *)
(* they were when the call began, and weight and int_weight of every other *)
(* slot (basis states, labels without a range, slots at or after the       *)
(* terminator) are what they were then, that is, absent.                   *)
(***************************************************************************)
C11_Frame ==
  /\ wfa = wfa0
  /\ \A p \in DOMAIN weight :
       weight[p] # <<>> \/ int_weight[p] # <<>> => p \in Qualifying(wfa0)

C11_Witness ==
  /\ pc = "done" /\ Len(written) >= 2
  /\ \E p \in Slots(wfa) :       \* an edge under a label without a range
       p[1] \in NonBasis(wfa) /\ wfa.tree[p[1]][p[2]] # RANGE /\ Domain(p) # NO_EDGE
  /\ \E p \in Slots(wfa) :       \* a stale slot after the terminator
       /\ p[1] \in NonBasis(wfa) /\ wfa.tree[p[1]][p[2]] = RANGE
       /\ p \notin Qualifying(wfa) /\ Domain(p) # NO_EDGE
  /\ \A p \in Slots(wfa) : p \notin Qualifying(wfa) => ~ HasWeight(p) /\ ~ HasIntWeight(p)

(***************************************************************************)
(* C12: however the call ends, by return or by the overflow error, every   *)
(* transient array it allocated has been released exactly once when        *)
(* control leaves the routine, and none is accessed after its release.     *)
(***************************************************************************)
C12_AllReleased ==
  /\ \A a \in DOMAIN heap : heap[a] # "invalid"
  /\ pc \in {"done", "error"} => \A a \in DOMAIN heap : heap[a] \in {"none", "freed"}
  /\ pc = "classify" => heap["level_array"] = "live"
  /\ pc = "decode" => heap["level_array"] = "live" /\ heap["c_symbols"] = "live"
  /\ pc = "writeback" => heap["weights_array"] = "live"

(***************************************************************************)
(* C13: once the classification pass has completed without error, each of  *)
(* the total entries of level_array is less than offset4, the length of    *)
(* c_symbols, the zero entries past the last weight-bearing edge included. *)
(***************************************************************************)
C13_ContextIdsInRange ==
  pc \in {"alphabet", "decode", "crashed", "writeback", "done"} =>
    /\ DOMAIN level_array = 0 .. total - 1
    /\ \A k \in DOMAIN level_array : level_array[k] < offset4

(***************************************************************************)
(* C14: two weight-bearing edges get the same context id only if they      *)
(* agree on DC versus AC and on the delta flag of their states and, when   *)
(* both are AC, their states have the same level.                          *)
(***************************************************************************)
C14_DisjointClasses ==
  \A i, j \in 1 .. Len(classified) :
    LET p == classified[i]
        q == classified[j]
    IN  level_array[i - 1] = level_array[j - 1] =>
          /\ (Domain(p) = 0) = (Domain(q) = 0)
          /\ wfa.delta_state[p[1]] = wfa.delta_state[q[1]]
          /\ Domain(p) # 0 =>
               wfa.level_of_state[p[1]] = wfa.level_of_state[q[1]]


(***************************************************************************)
(* C15: over any sequence of open, close, get_frame and getter calls on a  *)
(* FiascoDecoder and its destruction, at most one native handle is live at *)
(* a time and it is the one the object holds; no handle is deleted twice,  *)
(* and after the destruction every handle created has been deleted exactly *)
(* once; get_frame calls the native decoder only with the live handle it   *)
(* holds, and raises "No file opened" exactly when it holds none.          *)
(***************************************************************************)
LiveHandles == { h \in 1 .. MaxOpens : IsLive(dec, h) }

C15_OneHandle ==
  /\ Cardinality(LiveHandles) <= 1
  /\ LiveHandles = (IF dec.decoder_ = 0 THEN {} ELSE {dec.decoder_})
  /\ \A h \in 1 .. MaxOpens : dec.deletes[h] <= 1
  /\ ~ dec.alive => \A h \in 1 .. dec.created : dec.deletes[h] = 1
  /\ ~ dec.dead
  /\ dec.op = "get_frame" =>
       /\ (dec.res = "No file opened") = (dec.held = 0)
       /\ dec.native = dec.held

C15_Witness ==
  /\ ~ dec.alive
  /\ dec.created >= 2
  /\ dec.calls >= 1
  /\ dec.op = "destroy" /\ dec.held # 0


=============================================================================
